---- MODULE Spec2Model ----
(***************************************************************************)
(* Model of the four QuickSight provisioning scripts:                      *)
(*   QStemplateExport.py          (TemplateExporter)                       *)
(*   QSsaveTemplate.py            (TemplateSaver)                          *)
(*   QScreateAnewDashboard.py     (DashboardCreator)                       *)
(*   QScreateDiffAccountDash.py   (CrossAccountDashboardReplicator)        *)
(* One run of a script is a walk of pc from "start" to "done"; every       *)
(* remote call is appended to calls.  The service, the clock and the       *)
(* environment are the nondeterministic surroundings of the scripts.      *)
(***************************************************************************)
EXTENDS Integers, Sequences, FiniteSets, TLC

VARIABLES
    script,        \* which of the four scripts this process executes
    env,           \* os.environ restricted to the variables the scripts read
    pc,            \* position in the script
    block,         \* QScreateDiffAccountDash.py: which of its three try blocks
    defined,       \* module-level function names bound so far
    calls,         \* remote calls issued in the current run, in order
    analysis,      \* QStemplateExport.py: the local variable analysis
    template_obj,  \* the local variable template_obj (NoValue until fetched)
    target_client, \* the local variable target_client (NoValue until built)
    result,        \* value returned by create_quicksight_template
    raised,        \* exceptions that left a function or reached the top level, in order
    exit,          \* process exit status: "none" while running
    file,          \* content of template.json
    filePrior,     \* content of template.json when the current run started
    templates,     \* service state: TemplateIds that exist in the source account
    dashboards,    \* service state: <<account, DashboardId>> pairs that exist
    dashReqs,      \* every create-dashboard request of every run: id and instant
    service,       \* whether the service fails calls for reasons of its own
    now,           \* wall clock, in ticks
    run            \* number of the current run

vars == <<script, env, pc, block, defined, calls, analysis, template_obj, target_client,
          result, raised, exit, file, filePrior, templates, dashboards,
          dashReqs, service, now, run>>

----------------------------------------------------------------------------
(* Bounds of the model *)

\* longest DataSetConfigurations list a describe-template response carries
MaxPlaceholders == 2
\* last instant of the wall clock
MaxClock == 3
\* clock ticks per wall-clock second (datetime.now() is finer than %S)
TicksPerSecond == 2
\* how many times the script is run against the same service
MaxRuns == 2

----------------------------------------------------------------------------
(* Values *)

Unset == "<unset>"
NoValue == "<none>"
NoFile == <<"<no file>">>

Exporter == "TemplateExporter"
Saver == "TemplateSaver"
Creator == "DashboardCreator"
Cross == "CrossAccountDashboardReplicator"
Scripts == {Exporter, Saver, Creator, Cross}

EnvVars == {"AWS_ACCOUNT_ID", "AWS_REGION", "TEMPLATE_ID", "DATASET_ID",
            "ANALYSIS_ID", "TARGET_ACCOUNT_ID", "TARGET_DATASET_ID",
            "TARGET_ROLE_ARN", "TARGET_REGION"}

SourceAccount == "111111111111"
TargetAccount == "222222222222"
Regions == {"us-east-1", "us-west-2"}

\* the values a variable can hold when it is set
EnvValues(v) ==
    CASE v = "AWS_ACCOUNT_ID"    -> {SourceAccount, TargetAccount}
      [] v = "AWS_REGION"        -> Regions
      [] v = "TARGET_REGION"     -> Regions
      [] v = "TEMPLATE_ID"       -> {"t1"}
      [] v = "DATASET_ID"        -> {"d1"}
      [] v = "ANALYSIS_ID"       -> {"a1"}
      [] v = "TARGET_ACCOUNT_ID" -> {TargetAccount}
      [] v = "TARGET_DATASET_ID" -> {"d2"}
      [] v = "TARGET_ROLE_ARN"   -> {"arn:aws:iam::222222222222:role/qs"}

\* the variables each script reads
ReadVars(s) ==
    CASE s = Exporter -> {"ANALYSIS_ID", "AWS_ACCOUNT_ID"}
      [] s = Saver    -> {"AWS_ACCOUNT_ID", "AWS_REGION", "TEMPLATE_ID"}
      [] s = Creator  -> {"AWS_ACCOUNT_ID", "TEMPLATE_ID", "DATASET_ID", "AWS_REGION"}
      [] s = Cross    -> {"AWS_ACCOUNT_ID", "TEMPLATE_ID", "TARGET_ACCOUNT_ID",
                          "TARGET_DATASET_ID", "TARGET_ROLE_ARN", "AWS_REGION",
                          "TARGET_REGION"}

\* what a script can find under a name: a value or nothing, and nothing under
\* the names it never reads
Choices(s, v) == IF v \in ReadVars(s) THEN EnvValues(v) \cup {Unset} ELSE {Unset}

\* the environments a script can be started in
Environments(s) ==
    [AWS_ACCOUNT_ID    : Choices(s, "AWS_ACCOUNT_ID"),
     AWS_REGION        : Choices(s, "AWS_REGION"),
     TEMPLATE_ID       : Choices(s, "TEMPLATE_ID"),
     DATASET_ID        : Choices(s, "DATASET_ID"),
     ANALYSIS_ID       : Choices(s, "ANALYSIS_ID"),
     TARGET_ACCOUNT_ID : Choices(s, "TARGET_ACCOUNT_ID"),
     TARGET_DATASET_ID : Choices(s, "TARGET_DATASET_ID"),
     TARGET_ROLE_ARN   : Choices(s, "TARGET_ROLE_ARN"),
     TARGET_REGION     : Choices(s, "TARGET_REGION")]

\* os.environ.get(name, default)
EnvGet(name, default) == IF env[name] = Unset THEN default ELSE env[name]

\* var not in os.environ
Missing(names) == {v \in names : env[v] = Unset}

\* region of boto3's default session (QStemplateExport.py: session.region_name)
SessionRegion == "session-region"

----------------------------------------------------------------------------
(* Template descriptions returned by describe-template *)

\* names of dataset placeholders; a template names each placeholder once
Placeholders == {<<"placeholder", i>> : i \in 1..MaxPlaceholders}

RECURSIVE DistinctSeqs(_, _)
DistinctSeqs(S, n) ==
    IF n = 0 THEN {<<>>}
    ELSE LET shorter == DistinctSeqs(S, n - 1)
         IN  shorter \cup UNION {{Append(q, x) : x \in S \ {q[i] : i \in DOMAIN q}} :
                                    q \in shorter}

ConfigLists == {[i \in DOMAIN q |-> [Placeholder |-> q[i]]] :
                    q \in DistinctSeqs(Placeholders, MaxPlaceholders)}

TemplateArn(account, template_id) ==
    <<"arn:aws:quicksight", "region", account, "template", template_id>>

\* response['Template'] of describe-template: with no Version key, with a Version
\* that has no DataSetConfigurations key, and with every list of configurations
Templates(account, template_id) ==
    LET arn == TemplateArn(account, template_id)
    IN  {[Arn |-> arn]}
        \cup {[Arn |-> arn, Version |-> [CreatedTime |-> [datetime |-> 7]]]}
        \cup {[Arn |-> arn,
               Version |-> [CreatedTime |-> [datetime |-> 7],
                            DataSetConfigurations |-> c]] : c \in ConfigLists}

\* the dataset configurations the scripts iterate over (both create_dashboard's:
\* 'Version' in ... and 'DataSetConfigurations' in ...['Version'])
ConfigsOf(tobj) ==
    IF "Version" \in DOMAIN tobj.Template
       /\ "DataSetConfigurations" \in DOMAIN tobj.Template.Version
    THEN tobj.Template.Version.DataSetConfigurations
    ELSE <<>>

----------------------------------------------------------------------------
(* Identifiers and request fields the scripts format *)

\* a format that stops at the minute: '%Y%m%d%H%M'
Strftime_Minutes(t) == t \div (60 * TicksPerSecond)

\* datetime.now().strftime('%Y%m%d%H%M%S'): the instant cut to whole seconds
Strftime(t) == t \div TicksPerSecond

\* f"dashboard-{datetime.now().strftime('%Y%m%d%H%M%S')}"
DashboardId(t) == <<"dashboard-", Strftime(t)>>

\* f"arn:aws:quicksight:{region}:{account}:dataset/{dataset_id}"
DataSetArn(region, account, dataset_id) ==
    <<"arn:aws:quicksight", region, account, "dataset", dataset_id>>

\* f"arn:aws:quicksight:{region}:{account}:namespace/default"
NamespacePrincipal(region, account) ==
    <<"arn:aws:quicksight", region, account, "namespace", "default">>

\* f'arn:aws:iam::{target_account_id}:root'
RootPrincipal(account) == <<"arn:aws:iam", "", account, "root">>

\* f"https://{region}.quicksight.aws.amazon.com/sn/dashboards/{dashboard_id}"
DashboardUrl(region, dashboard_id) ==
    <<"https://", region, ".quicksight.aws.amazon.com/sn/dashboards/", dashboard_id>>

\* QScreateAnewDashboard.py: the region written into ARNs and the URL
Creator_Region == EnvGet("AWS_REGION", "us-east-1")

\* the source script's region expression left in the cross-account script
Cross_ArnRegion_Source == EnvGet("AWS_REGION", "us-east-1")

\* QScreateDiffAccountDash.py create_dashboard: the region written into ARNs
Cross_ArnRegion == EnvGet("TARGET_REGION", "us-east-1")

\* QScreateDiffAccountDash.py assume_target_role: region_name of the session
Cross_SessionRegion == EnvGet("TARGET_REGION", EnvGet("AWS_REGION", "us-east-1"))

\* a loop that stops after the first configuration
Creator_DataSetReferences_FirstOnly(tobj, account_id) ==
    LET cfg == ConfigsOf(tobj)
    IN  [i \in DOMAIN cfg \cap {1} |->
            [DataSetPlaceholder |-> cfg[i].Placeholder,
             DataSetArn |-> DataSetArn(EnvGet("AWS_REGION", "us-east-1"), account_id,
                                       env["DATASET_ID"])]]

\* QScreateAnewDashboard.py create_dashboard: the dataset_references loop
Creator_DataSetReferences(tobj, account_id) ==
    LET cfg == ConfigsOf(tobj)
    IN  [i \in DOMAIN cfg |->
            [DataSetPlaceholder |-> cfg[i].Placeholder,
             DataSetArn |-> DataSetArn(Creator_Region, account_id, env["DATASET_ID"])]]

\* QScreateDiffAccountDash.py create_dashboard: the dataset_references loop
Cross_DataSetReferences(tobj, account_id, dataset_id) ==
    LET cfg == ConfigsOf(tobj)
    IN  [i \in DOMAIN cfg |->
            [DataSetPlaceholder |-> cfg[i].Placeholder,
             DataSetArn |-> DataSetArn(Cross_ArnRegion, account_id, dataset_id)]]

\* QStemplateExport.py: an analysis' dataset ARN is kept as its '/'-separated
\* segments; dataset.split('/')[-1] is the last one
Exporter_DataSetReferences(arns) ==
    [i \in DOMAIN arns |->
        [DataSetPlaceholder |-> arns[i][Len(arns[i])], DataSetArn |-> arns[i]]]

AnalysisDataSetArns ==
    {<<>>, << <<"arn:aws:quicksight:r:a:dataset", "d1">> >>}

----------------------------------------------------------------------------
(* Clients and the log of remote calls *)

DefaultCreds == "default-credentials"
AssumedCreds(role_arn) == <<"assumed", role_arn>>

Client(creds, region) == [creds |-> creds, region |-> region]

\* one remote call: the operation, the client it went through, the request
\* fields the scripts set, and whether the service accepted it
Call(op, client, account, id, version, refs, principal, ok) ==
    [op |-> op, client |-> client, account |-> account, id |-> id,
     version |-> version, refs |-> refs, principal |-> principal, ok |-> ok]

Ops(c) == [i \in DOMAIN c |-> c[i].op]

----------------------------------------------------------------------------
(* Exceptions *)

Exc(type, from, caught_by) == [type |-> type, from |-> from, caught_by |-> caught_by]

Uncaught == "uncaught"

\* top-level clauses without the closing `except Exception`
TopLevelHandler_NoCatchAll(s, type) ==
    CASE s = Saver    -> Uncaught
      [] s = Exporter -> "except Exception"
      [] OTHER        ->
            CASE type = "ClientError" -> "except ClientError"
              [] type = "KeyError"    -> "except KeyError"
              [] type = "ValueError"  -> "except ValueError"
              [] OTHER                -> Uncaught

\* the except clause at the top level of each script that takes an exception
TopLevelHandler(s, type) ==
    CASE s = Saver    -> Uncaught
      [] s = Exporter -> "except Exception"
      [] OTHER        ->
            CASE type = "ClientError" -> "except ClientError"
              [] type = "KeyError"    -> "except KeyError"
              [] type = "ValueError"  -> "except ValueError"
              [] OTHER                -> "except Exception"

\* every top-level clause only prints; an uncaught exception ends the process
ExitStatus(handler) == IF handler = Uncaught THEN "nonzero" ELSE "zero"

----------------------------------------------------------------------------
(* json.dumps(response['Template'], indent=4, sort_keys=True, default=str) *)

\* default=str on a datetime
Str(v) == <<"str", v.datetime>>

DumpConfig(c) == << <<"Placeholder", c.Placeholder>> >>

DumpVersion(v) ==
    << <<"CreatedTime", Str(v.CreatedTime)>> >>
    \o (IF "DataSetConfigurations" \in DOMAIN v
        THEN << <<"DataSetConfigurations",
                  [i \in DOMAIN v.DataSetConfigurations |->
                        DumpConfig(v.DataSetConfigurations[i])]>> >>
        ELSE <<>>)

\* keys in sorted order: Arn < Version, CreatedTime < DataSetConfigurations
JsonDumps(t) ==
    << <<"Arn", t.Arn>> >>
    \o (IF "Version" \in DOMAIN t THEN << <<"Version", DumpVersion(t.Version)>> >> ELSE <<>>)

----------------------------------------------------------------------------
(* Initial state: a script, an environment, an output file and a clock *)

\* function names bound when a script's first top-level try block starts
InitiallyDefined(s) ==
    CASE s = Exporter -> {"create_quicksight_template"}
      [] s = Saver    -> {"download_template"}
      [] s = Creator  -> {"get_template_details", "create_dashboard",
                          "list_quicksight_groups"}
      [] s = Cross    -> {"assume_target_role", "update_template_permissions"}

\* template.json before the first run; only QSsaveTemplate.py opens it
InitialFiles(s) == IF s = Saver THEN {NoFile, <<"old content">>} ELSE {NoFile}

Init ==
    /\ script \in Scripts
    /\ env \in Environments(script)
    /\ pc = "start"
    /\ block = 1
    /\ defined = InitiallyDefined(script)
    /\ calls = <<>>
    /\ analysis = NoValue
    /\ template_obj = NoValue
    /\ target_client = NoValue
    /\ result = NoValue
    /\ raised = <<>>
    /\ exit = "none"
    /\ file \in InitialFiles(script)
    /\ filePrior = file
    /\ templates = {}
    /\ dashboards = {}
    /\ dashReqs = <<>>
    /\ service \in {"may fail", "rejects duplicates only"}
    /\ now = 0
    /\ run = 1

\* variables no script step changes
Surroundings == <<script, env, service, now, run, filePrior>>

\* the answers the service can give to a request: a request to create what
\* exists is rejected, any other request is accepted or, when the service may
\* fail, answered with an error
Outcomes(exists) ==
    IF exists THEN {FALSE}
    ELSE IF service = "may fail" THEN BOOLEAN ELSE {TRUE}

\* append one call to the log
Issue(c) == calls' = Append(calls, c)

\* an exception reaches the top level of a single-block script
TopLevel(type, from) ==
    LET h == TopLevelHandler(script, type)
    IN  /\ raised' = Append(raised, Exc(type, from, h))
        /\ exit' = ExitStatus(h)
        /\ pc' = "done"

----------------------------------------------------------------------------
(* QStemplateExport.py *)

\* lines 68-70 and 13-17: read ANALYSIS_ID, enter create_quicksight_template
Exporter_Start ==
    /\ script = Exporter /\ pc = "start"
    /\ IF env["ANALYSIS_ID"] = Unset
       THEN TopLevel("KeyError", "<module>")
       ELSE pc' = "describe_analysis" /\ UNCHANGED <<raised, exit>>
    /\ UNCHANGED <<Surroundings, block, defined, calls, analysis, template_obj,
                   target_client, result, file, templates, dashboards, dashReqs>>

\* lines 21-33: describe_analysis and the dataset_references loop
Exporter_DescribeAnalysis ==
    /\ script = Exporter /\ pc = "describe_analysis"
    /\ IF env["AWS_ACCOUNT_ID"] = Unset
       THEN /\ TopLevel("KeyError", "create_quicksight_template")
            /\ UNCHANGED <<calls, analysis>>
       ELSE \E ok \in Outcomes(FALSE) :
            /\ Issue(Call("describe_analysis", Client(DefaultCreds, SessionRegion),
                          env["AWS_ACCOUNT_ID"], env["ANALYSIS_ID"], NoValue,
                          <<>>, NoValue, ok))
            /\ IF ok
               THEN /\ \E arns \in AnalysisDataSetArns :
                          analysis' = [Analysis |-> [DataSetArns |-> arns]]
                    /\ pc' = "create_template"
                    /\ UNCHANGED <<raised, exit>>
               ELSE /\ TopLevel("ClientError", "create_quicksight_template")
                    /\ UNCHANGED analysis
    /\ UNCHANGED <<Surroundings, block, defined, template_obj, target_client,
                   result, file, templates, dashboards, dashReqs>>

\* lines 36-47: create_template with TemplateId = analysis_id; the service
\* rejects an identifier that exists
Exporter_CreateTemplate ==
    /\ script = Exporter /\ pc = "create_template"
    /\ \E ok \in Outcomes(env["ANALYSIS_ID"] \in templates) :
        /\ Issue(Call("create_template", Client(DefaultCreds, SessionRegion),
                      env["AWS_ACCOUNT_ID"], env["ANALYSIS_ID"], NoValue,
                      Exporter_DataSetReferences(analysis.Analysis.DataSetArns),
                      NoValue, ok))
        /\ IF ok
           THEN /\ templates' = templates \cup {env["ANALYSIS_ID"]}
                /\ pc' = "describe_template"
                /\ UNCHANGED <<raised, exit>>
           ELSE /\ TopLevel("ClientError", "create_quicksight_template")
                /\ UNCHANGED templates
    /\ UNCHANGED <<Surroundings, block, defined, analysis, template_obj,
                   target_client, result, file, dashboards, dashReqs>>

\* the response of create_template (line 36), kept in the local `response`
Exporter_CreateResponse ==
    [from |-> "create_template",
     Template |-> [Arn |-> TemplateArn(env["AWS_ACCOUNT_ID"], env["ANALYSIS_ID"])]]

\* returning the create_template response instead
Exporter_Return_Created(response, described) == response

\* line 50: the function returns the describe_template response, not `response`
Exporter_Return(response, described) == described

\* lines 50-53 and 70-72: describe_template, whose response is returned
Exporter_DescribeTemplate ==
    /\ script = Exporter /\ pc = "describe_template"
    /\ \E ok \in Outcomes(FALSE) :
        /\ Issue(Call("describe_template", Client(DefaultCreds, SessionRegion),
                      env["AWS_ACCOUNT_ID"], env["ANALYSIS_ID"], NoValue,
                      <<>>, NoValue, ok))
        /\ IF ok
           THEN /\ \E t \in Templates(env["AWS_ACCOUNT_ID"], env["ANALYSIS_ID"]) :
                      result' = Exporter_Return(Exporter_CreateResponse,
                                    [from |-> "describe_template", Template |-> t])
                /\ pc' = "done"
                /\ exit' = "zero"
                /\ UNCHANGED raised
           ELSE /\ TopLevel("ClientError", "create_quicksight_template")
                /\ UNCHANGED result
    /\ UNCHANGED <<Surroundings, block, defined, analysis, template_obj,
                   target_client, file, templates, dashboards, dashReqs>>

----------------------------------------------------------------------------
(* QSsaveTemplate.py *)

\* lines 37-39: the three os.environ[...] reads
Saver_Start ==
    /\ script = Saver /\ pc = "start"
    /\ IF Missing({"AWS_ACCOUNT_ID", "AWS_REGION", "TEMPLATE_ID"}) # {}
       THEN TopLevel("KeyError", "<module>")
       ELSE pc' = "describe_template" /\ UNCHANGED <<raised, exit>>
    /\ UNCHANGED <<Surroundings, block, defined, calls, analysis, template_obj,
                   target_client, result, file, templates, dashboards, dashReqs>>

\* download_template lines 23-31: describe_template at VersionNumber=int(1)
Saver_DescribeTemplate ==
    /\ script = Saver /\ pc = "describe_template"
    /\ \E ok \in Outcomes(FALSE) :
        /\ Issue(Call("describe_template", Client(DefaultCreds, env["AWS_REGION"]),
                      env["AWS_ACCOUNT_ID"], env["TEMPLATE_ID"], 1,
                      <<>>, NoValue, ok))
        /\ IF ok
           THEN /\ \E t \in Templates(env["AWS_ACCOUNT_ID"], env["TEMPLATE_ID"]) :
                      template_obj' = [Template |-> t, Status |-> 200]
                /\ pc' = "write_file"
                /\ UNCHANGED <<raised, exit>>
           ELSE /\ TopLevel("ClientError", "download_template")
                /\ UNCHANGED template_obj
    /\ UNCHANGED <<Surroundings, block, defined, analysis, target_client,
                   result, file, templates, dashboards, dashReqs>>

\* the file opened in append mode
Saver_Written_Append(old, response) ==
    (IF old = NoFile THEN <<>> ELSE old) \o JsonDumps(response.Template)

\* open(output_file, 'w') drops what the file held; the one write puts the
\* serialized response['Template'] there
Saver_Written(old, response) == JsonDumps(response.Template)

\* download_template lines 33-34: open(output_file, 'w') and the one write
Saver_WriteFile ==
    /\ script = Saver /\ pc = "write_file"
    /\ file' = Saver_Written(file, template_obj)
    /\ pc' = "done"
    /\ exit' = "zero"
    /\ UNCHANGED <<Surroundings, block, defined, calls, analysis, template_obj,
                   target_client, result, raised, templates, dashboards, dashReqs>>

----------------------------------------------------------------------------
(* QScreateAnewDashboard.py *)

\* a required_vars list that leaves DATASET_ID out
Creator_Required_NoDataset == {"AWS_ACCOUNT_ID", "TEMPLATE_ID"}

\* line 107: required_vars
Creator_Required == {"AWS_ACCOUNT_ID", "TEMPLATE_ID", "DATASET_ID"}

\* lines 105-116: the required_vars check, the client and the local names
Creator_Validate ==
    /\ script = Creator /\ pc = "start"
    /\ IF Missing(Creator_Required) # {}
       THEN TopLevel("ValueError", "<module>")
       ELSE IF env["AWS_ACCOUNT_ID"] = Unset \/ env["TEMPLATE_ID"] = Unset
       THEN TopLevel("KeyError", "<module>")
       ELSE pc' = "list_groups" /\ UNCHANGED <<raised, exit>>
    /\ UNCHANGED <<Surroundings, block, defined, calls, analysis, template_obj,
                   target_client, result, file, templates, dashboards, dashReqs>>

Creator_Client == Client(DefaultCreds, EnvGet("AWS_REGION", "us-east-1"))

\* list_quicksight_groups lines 92-103: a ClientError is printed and None returned
Creator_ListGroups ==
    /\ script = Creator /\ pc = "list_groups"
    /\ \E ok \in Outcomes(FALSE) :
        /\ Issue(Call("list_groups", Creator_Client, env["AWS_ACCOUNT_ID"],
                      "default", NoValue, <<>>, NoValue, ok))
        /\ raised' = IF ok THEN raised
                     ELSE Append(raised, Exc("ClientError", "list_groups",
                                             "list_quicksight_groups"))
    /\ pc' = "get_template"
    /\ UNCHANGED <<Surroundings, block, defined, analysis, template_obj,
                   target_client, result, exit, file, templates, dashboards, dashReqs>>

\* get_template_details lines 6-17: describe_template, a ClientError is re-raised
Creator_GetTemplateDetails ==
    /\ script = Creator /\ pc = "get_template"
    /\ \E ok \in Outcomes(FALSE) :
        /\ Issue(Call("describe_template", Creator_Client, env["AWS_ACCOUNT_ID"],
                      env["TEMPLATE_ID"], NoValue, <<>>, NoValue, ok))
        /\ IF ok
           THEN /\ \E t \in Templates(env["AWS_ACCOUNT_ID"], env["TEMPLATE_ID"]) :
                      template_obj' = [Template |-> t, Status |-> 200]
                /\ pc' = "create_dashboard"
                /\ UNCHANGED <<raised, exit>>
           ELSE /\ TopLevel("ClientError", "get_template_details")
                /\ UNCHANGED template_obj
    /\ UNCHANGED <<Surroundings, block, defined, analysis, target_client,
                   result, file, templates, dashboards, dashReqs>>

\* create_dashboard line 45: if not dataset_references: raise ValueError
Creator_NoReferences(refs) == refs = <<>>

\* create_dashboard lines 19-90, called with account_id = AWS_ACCOUNT_ID
Creator_CreateDashboard ==
    /\ script = Creator /\ pc = "create_dashboard"
    /\ LET account_id   == env["AWS_ACCOUNT_ID"]
           dashboard_id == DashboardId(now)
           refs         == Creator_DataSetReferences(template_obj, account_id)
       IN  IF ConfigsOf(template_obj) # <<>> /\ env["DATASET_ID"] = Unset
           THEN /\ TopLevel("KeyError", "create_dashboard")
                /\ UNCHANGED <<calls, dashboards, dashReqs, result>>
           ELSE IF Creator_NoReferences(refs)
           THEN /\ TopLevel("ValueError", "create_dashboard")
                /\ UNCHANGED <<calls, dashboards, dashReqs, result>>
           ELSE \E ok \in Outcomes(<<account_id, dashboard_id>> \in dashboards) :
                /\ Issue(Call("create_dashboard", Creator_Client, account_id,
                              dashboard_id, NoValue, refs,
                              NamespacePrincipal(Creator_Region, account_id), ok))
                /\ dashReqs' = Append(dashReqs, [account |-> account_id,
                                  id |-> dashboard_id, at |-> now, ok |-> ok])
                /\ IF ok
                   THEN /\ dashboards' = dashboards \cup {<<account_id, dashboard_id>>}
                        /\ result' = [from |-> "create_dashboard", id |-> dashboard_id,
                                       url |-> DashboardUrl(Creator_Region, dashboard_id)]
                        /\ pc' = "done"
                        /\ exit' = "zero"
                        /\ UNCHANGED raised
                   ELSE /\ TopLevel("ClientError", "create_dashboard")
                        /\ UNCHANGED <<dashboards, result>>
    /\ UNCHANGED <<Surroundings, block, defined, analysis, template_obj,
                   target_client, file, templates>>

----------------------------------------------------------------------------
(* QScreateDiffAccountDash.py: three top-level try blocks, the definitions of
   get_template_details and create_dashboard standing between the first and
   the second *)

Cross_Required == {"AWS_ACCOUNT_ID", "TEMPLATE_ID", "TARGET_ACCOUNT_ID",
                   "TARGET_DATASET_ID", "TARGET_ROLE_ARN"}

\* the statement after the current try block
Cross_NextBlock ==
    CASE block = 1 -> pc' = "define" /\ UNCHANGED <<block, exit>>
      [] block = 2 -> pc' = "start" /\ block' = 3 /\ UNCHANGED exit
      [] OTHER     -> pc' = "done" /\ exit' = "zero" /\ UNCHANGED block

\* an exception reaches the except clauses of the current try block
Cross_Except(type, from) ==
    LET h == TopLevelHandler(script, type)
    IN  /\ raised' = Append(raised, Exc(type, from, h))
        /\ IF h = Uncaught
           THEN pc' = "done" /\ exit' = "nonzero" /\ UNCHANGED block
           ELSE Cross_NextBlock

Cross_SourceClient == Client(DefaultCreds, EnvGet("AWS_REGION", "us-east-1"))

\* which step follows validation: the third block has no permission update
Cross_AfterValidate == IF block = 3 THEN "assume_role" ELSE "update_permissions"

\* lines 52-66, 184-198, 249-263: the required_vars check and the source client
Cross_Validate ==
    /\ script = Cross /\ pc = "start"
    /\ IF Missing(Cross_Required) # {}
       THEN Cross_Except("ValueError", "<module>")
       ELSE pc' = Cross_AfterValidate /\ UNCHANGED <<raised, exit, block>>
    /\ UNCHANGED <<Surroundings, defined, calls, analysis, template_obj,
                   target_client, result, file, templates, dashboards, dashReqs>>

\* update_template_permissions lines 28-50 (called at 69-74 and 201-206)
Cross_UpdateTemplatePermissions ==
    /\ script = Cross /\ pc = "update_permissions"
    /\ IF "update_template_permissions" \notin defined
       THEN Cross_Except("NameError", "<module>") /\ UNCHANGED calls
       ELSE \E ok \in Outcomes(FALSE) :
            /\ Issue(Call("update_template_permissions", Cross_SourceClient,
                          env["AWS_ACCOUNT_ID"], env["TEMPLATE_ID"], NoValue, <<>>,
                          RootPrincipal(env["TARGET_ACCOUNT_ID"]), ok))
            /\ IF ok
               THEN pc' = "assume_role" /\ UNCHANGED <<raised, exit, block>>
               ELSE Cross_Except("ClientError", "update_template_permissions")
    /\ UNCHANGED <<Surroundings, defined, analysis, template_obj,
                   target_client, result, file, templates, dashboards, dashReqs>>

\* assume_target_role lines 8-27 and target_session.client('quicksight')
Cross_AssumeRole ==
    /\ script = Cross /\ pc = "assume_role"
    /\ IF "assume_target_role" \notin defined
       THEN Cross_Except("NameError", "<module>") /\ UNCHANGED <<calls, target_client>>
       ELSE \E ok \in Outcomes(FALSE) :
            /\ Issue(Call("assume_role", Client(DefaultCreds, "sts"),
                          NoValue, env["TARGET_ROLE_ARN"], NoValue, <<>>, NoValue, ok))
            /\ IF ok
               THEN /\ target_client' = Client(AssumedCreds(env["TARGET_ROLE_ARN"]),
                                               Cross_SessionRegion)
                    /\ pc' = "get_template"
                    /\ UNCHANGED <<raised, exit, block>>
               ELSE /\ Cross_Except("ClientError", "assume_target_role")
                    /\ UNCHANGED target_client
    /\ UNCHANGED <<Surroundings, defined, analysis, template_obj,
                   result, file, templates, dashboards, dashReqs>>

\* get_template_details lines 109-121 (called at 81, 213, 270 through the
\* source client); at line 81 the name is not bound yet
Cross_GetTemplateDetails ==
    /\ script = Cross /\ pc = "get_template"
    /\ IF "get_template_details" \notin defined
       THEN Cross_Except("NameError", "<module>") /\ UNCHANGED <<calls, template_obj>>
       ELSE \E ok \in Outcomes(FALSE) :
            /\ Issue(Call("describe_template", Cross_SourceClient,
                          env["AWS_ACCOUNT_ID"], env["TEMPLATE_ID"], NoValue,
                          <<>>, NoValue, ok))
            /\ IF ok
               THEN /\ \E t \in Templates(env["AWS_ACCOUNT_ID"], env["TEMPLATE_ID"]) :
                          template_obj' = [Template |-> t, Status |-> 200]
                    /\ pc' = "create_dashboard"
                    /\ UNCHANGED <<raised, exit, block>>
               ELSE /\ Cross_Except("ClientError", "get_template_details")
                    /\ UNCHANGED template_obj
    /\ UNCHANGED <<Surroundings, defined, analysis, target_client,
                   result, file, templates, dashboards, dashReqs>>

\* create_dashboard lines 123-182 has no check of dataset_references
Cross_NoReferences(refs) == FALSE

\* create_dashboard lines 123-182, called with the target client,
\* TARGET_ACCOUNT_ID and TARGET_DATASET_ID (lines 89-95, 228-234, 278-284)
Cross_CreateDashboard ==
    /\ script = Cross /\ pc = "create_dashboard"
    /\ LET account_id   == env["TARGET_ACCOUNT_ID"]
           dashboard_id == DashboardId(now)
           refs         == Cross_DataSetReferences(template_obj, account_id,
                                                   env["TARGET_DATASET_ID"])
       IN  IF "create_dashboard" \notin defined
           THEN /\ Cross_Except("NameError", "<module>")
                /\ UNCHANGED <<calls, dashboards, dashReqs, result>>
           ELSE IF Cross_NoReferences(refs)
           THEN /\ Cross_Except("ValueError", "create_dashboard")
                /\ UNCHANGED <<calls, dashboards, dashReqs, result>>
           ELSE \E ok \in Outcomes(<<account_id, dashboard_id>> \in dashboards) :
                /\ Issue(Call("create_dashboard", target_client, account_id,
                              dashboard_id, NoValue, refs,
                              NamespacePrincipal(Cross_ArnRegion, account_id), ok))
                /\ dashReqs' = Append(dashReqs, [account |-> account_id,
                                  id |-> dashboard_id, at |-> now, ok |-> ok])
                /\ IF ok
                   THEN /\ dashboards' = dashboards \cup {<<account_id, dashboard_id>>}
                        /\ result' = [from |-> "create_dashboard", id |-> dashboard_id,
                                       url |-> DashboardUrl(Cross_ArnRegion, dashboard_id)]
                        /\ Cross_NextBlock
                        /\ UNCHANGED raised
                   ELSE /\ Cross_Except("ClientError", "create_dashboard")
                        /\ UNCHANGED <<dashboards, result>>
    /\ UNCHANGED <<Surroundings, defined, analysis, template_obj,
                   target_client, file, templates>>

\* lines 109-182: the two def statements executed after the first try block
Cross_DefineFunctions ==
    /\ script = Cross /\ pc = "define"
    /\ defined' = defined \cup {"get_template_details", "create_dashboard"}
    /\ block' = 2
    /\ pc' = "start"
    /\ UNCHANGED <<Surroundings, calls, analysis, template_obj, target_client,
                   result, raised, exit, file, templates, dashboards, dashReqs>>

----------------------------------------------------------------------------
(* Surroundings: the clock, and the operator running the script again *)

\* wall-clock time passes; only create_dashboard reads the clock, so the time
\* that passed since the last reading is taken right before the next one
Tick ==
    /\ pc = "create_dashboard"
    /\ now < MaxClock
    /\ now' = now + 1
    /\ UNCHANGED <<script, env, pc, block, defined, calls, analysis, template_obj,
                   target_client, result, raised, exit, file, filePrior,
                   templates, dashboards, dashReqs, service, run>>

\* the same script is started again in the same environment, against the same
\* service and the same working directory
StartRun ==
    /\ pc = "done"
    /\ run < MaxRuns
    /\ run' = run + 1
    /\ pc' = "start"
    /\ block' = 1
    /\ defined' = InitiallyDefined(script)
    /\ calls' = <<>>
    /\ analysis' = NoValue
    /\ template_obj' = NoValue
    /\ target_client' = NoValue
    /\ result' = NoValue
    /\ raised' = <<>>
    /\ exit' = "none"
    /\ filePrior' = file
    /\ UNCHANGED <<script, env, file, templates, dashboards, dashReqs, service, now>>

\* one run of a script
Next ==
    \/ Exporter_Start
    \/ Exporter_DescribeAnalysis
    \/ Exporter_CreateTemplate
    \/ Exporter_DescribeTemplate
    \/ Saver_Start
    \/ Saver_DescribeTemplate
    \/ Saver_WriteFile
    \/ Creator_Validate
    \/ Creator_ListGroups
    \/ Creator_GetTemplateDetails
    \/ Creator_CreateDashboard
    \/ Cross_Validate
    \/ Cross_UpdateTemplatePermissions
    \/ Cross_AssumeRole
    \/ Cross_GetTemplateDetails
    \/ Cross_CreateDashboard
    \/ Cross_DefineFunctions
    \/ Tick

Spec == Init /\ [][Next]_vars

\* the variables a script cannot run without
RequiredVars(s) ==
    CASE s = Exporter -> {"ANALYSIS_ID", "AWS_ACCOUNT_ID"}
      [] s = Saver    -> {"AWS_ACCOUNT_ID", "AWS_REGION", "TEMPLATE_ID"}
      [] s = Creator  -> Creator_Required
      [] s = Cross    -> Cross_Required

\* repeated runs of a script whose required variables are all set, in one
\* region, against a service that rejects nothing but an existing identifier

RepeatInit ==
    /\ Init
    /\ Missing(RequiredVars(script)) = {}
    /\ env["AWS_ACCOUNT_ID"] = SourceAccount
    /\ env["AWS_REGION"] # "us-west-2"
    /\ env["TARGET_REGION"] = Unset
    /\ service = "rejects duplicates only"

RepeatNext == Next \/ StartRun

RepeatSpec == RepeatInit /\ [][RepeatNext]_vars

----------------------------------------------------------------------------
(* Properties *)

IsCreateDashboard(c) == c.op = "create_dashboard"

LastCall == calls[Len(calls)]

\* C1: whenever the fetched template has no DataSetConfigurations key or an
\* empty DataSetConfigurations list, create_dashboard raises ValueError and no
\* create-dashboard request is sent: no create-dashboard request of a run
\* carries an empty DataSetReferences list, in either dashboard script.
C1_NoCreateWithoutReferences ==
    script \in {Creator, Cross} =>
        \A i \in DOMAIN calls : IsCreateDashboard(calls[i]) => calls[i].refs # <<>>

\* C2: a create-dashboard request built from a template with N >= 1 placeholders
\* carries exactly N dataset references, reference i naming placeholder i, and
\* every reference carries one and the same ARN
\* arn:aws:quicksight:{region}:{account}:dataset/{dataset_id} with the request's
\* account and DATASET_ID (same-account) or TARGET_DATASET_ID (cross-account).
C2_ReferencesFollowTemplate ==
    [][(/\ Len(calls') = Len(calls) + 1
        /\ IsCreateDashboard(calls'[Len(calls')])
        /\ Len(ConfigsOf(template_obj)) >= 1)
       =>
       LET c   == calls'[Len(calls')]
           cfg == template_obj.Template.Version.DataSetConfigurations
           id  == IF script = Creator THEN env["DATASET_ID"] ELSE env["TARGET_DATASET_ID"]
       IN  /\ Len(c.refs) = Len(cfg)
           /\ \A i \in 1..Len(cfg) : c.refs[i].DataSetPlaceholder = cfg[i].Placeholder
           /\ id # Unset
           /\ \E r \in Regions : \A i \in 1..Len(cfg) :
                 c.refs[i].DataSetArn = <<"arn:aws:quicksight", r, c.account, "dataset", id>>
      ]_vars

\* C2 witness: a same-account request made from a template with two placeholders
C2_Witness ==
    /\ script = Creator
    /\ calls # <<>>
    /\ IsCreateDashboard(LastCall)
    /\ Len(LastCall.refs) = 2
    /\ LastCall.refs[1].DataSetPlaceholder # LastCall.refs[2].DataSetPlaceholder

\* C3: a run in which at least one required environment variable of the script
\* is missing issues no remote call at all.
C3_MissingVariableNoCall ==
    LET required ==
            CASE script = Exporter -> {"ANALYSIS_ID", "AWS_ACCOUNT_ID"}
              [] script = Saver    -> {"AWS_ACCOUNT_ID", "AWS_REGION", "TEMPLATE_ID"}
              [] script = Creator  -> {"AWS_ACCOUNT_ID", "TEMPLATE_ID", "DATASET_ID"}
              [] script = Cross    -> {"AWS_ACCOUNT_ID", "TEMPLATE_ID", "TARGET_ACCOUNT_ID",
                                       "TARGET_DATASET_ID", "TARGET_ROLE_ARN"}
    IN  (\E v \in required : env[v] = Unset) => calls = <<>>

\* C3 witness: the exporter stopped inside create_quicksight_template, where
\* AWS_ACCOUNT_ID is read while the describe_analysis request is being built
C3_Witness ==
    /\ script = Exporter
    /\ env["ANALYSIS_ID"] # Unset
    /\ env["AWS_ACCOUNT_ID"] = Unset
    /\ pc = "done"
    /\ calls = <<>>

\* C4: a cross-account run with every required variable set and every remote
\* call successful issues exactly update-template-permissions, assume-role,
\* describe-template, create-dashboard, in this order, each once.
C4_FourCallsOnce ==
    (/\ script = Cross
     /\ pc = "done"
     /\ \A v \in {"AWS_ACCOUNT_ID", "TEMPLATE_ID", "TARGET_ACCOUNT_ID",
                  "TARGET_DATASET_ID", "TARGET_ROLE_ARN"} : env[v] # Unset
     /\ \A i \in DOMAIN calls : calls[i].ok)
    => Ops(calls) = <<"update_template_permissions", "assume_role",
                      "describe_template", "create_dashboard">>

\* C5: once a remote call of a run has failed, the run issues no further remote
\* call: a failed call is the last call of its run.
C5_FailureIsTerminal ==
    \A i \in DOMAIN calls : ~calls[i].ok => i = Len(calls)

\* C6: with TARGET_REGION set, every create-dashboard request of the
\* cross-account script goes through the client of the assumed target role with
\* AwsAccountId = TARGET_ACCOUNT_ID, every DataSetArn in it is
\* arn:aws:quicksight:TARGET_REGION:TARGET_ACCOUNT_ID:dataset/TARGET_DATASET_ID,
\* and the permission principal is rooted at the same region and account,
\* whatever AWS_ACCOUNT_ID and AWS_REGION are.
C6_TargetValuesOnly ==
    (script = Cross /\ env["TARGET_REGION"] # Unset) =>
        \A i \in DOMAIN calls : IsCreateDashboard(calls[i]) =>
            LET c == calls[i]
            IN  /\ c.account = env["TARGET_ACCOUNT_ID"]
                /\ c.client.creds = <<"assumed", env["TARGET_ROLE_ARN"]>>
                /\ \A k \in DOMAIN c.refs :
                      c.refs[k].DataSetArn =
                          <<"arn:aws:quicksight", env["TARGET_REGION"],
                            env["TARGET_ACCOUNT_ID"], "dataset", env["TARGET_DATASET_ID"]>>
                /\ c.principal = <<"arn:aws:quicksight", env["TARGET_REGION"],
                                   env["TARGET_ACCOUNT_ID"], "namespace", "default">>

\* C6 witness: a request with dataset references, sent while the source account
\* and the source region differ from the target's
C6_Witness ==
    /\ script = Cross
    /\ env["TARGET_REGION"] # Unset
    /\ env["AWS_REGION"] \notin {Unset, env["TARGET_REGION"]}
    /\ env["AWS_ACCOUNT_ID"] # env["TARGET_ACCOUNT_ID"]
    /\ calls # <<>>
    /\ IsCreateDashboard(LastCall)
    /\ LastCall.refs # <<>>

\* C7: the exporter, the dashboard creator and the cross-account script end with
\* exit status zero whatever failed, every exception being taken by an except
\* clause; the template saver ends with a non-zero status when a variable is
\* missing or the service call fails.
C7_ExitStatus ==
    /\ (script \in {Exporter, Creator, Cross}) =>
            /\ \A i \in DOMAIN raised : raised[i].caught_by # Uncaught
            /\ pc = "done" => exit = "zero"
    /\ (script = Saver /\ pc = "done") =>
            /\ raised # <<>> => exit = "nonzero"
            /\ (\E v \in {"AWS_ACCOUNT_ID", "AWS_REGION", "TEMPLATE_ID"} : env[v] = Unset)
                    => exit = "nonzero"
            /\ (calls # <<>> /\ ~LastCall.ok) => exit = "nonzero"

\* C7 witness: a cross-account run that ended with status zero after a service
\* error was re-raised by a handler and an exception of no named class was raised
C7_Witness ==
    /\ script = Cross
    /\ pc = "done"
    /\ exit = "zero"
    /\ \E i \in DOMAIN raised : raised[i].type = "ClientError"
    /\ \E i \in DOMAIN raised : raised[i].type = "NameError"

C9_ExporterOrder ==
    script = Exporter =>
        /\ \A i \in DOMAIN calls :
              /\ calls[i].op = <<"describe_analysis", "create_template",
                                 "describe_template">>[i]
              /\ i < Len(calls) => calls[i].ok
        /\ Len(calls) <= 3
        /\ (pc = "done" /\ Len(calls) = 3 /\ calls[3].ok) =>
              /\ result.from = "describe_template"
              /\ raised = <<>>
        /\ (pc = "done" /\ calls # <<>> /\ ~LastCall.ok) =>
              /\ raised = << [type |-> "ClientError",
                              from |-> "create_quicksight_template",
                              caught_by |-> "except Exception"] >>
        /\ (pc # "done" \/ Len(calls) < 3 \/ ~LastCall.ok) => result = NoValue

\* C9 witness: the exporter finished after three successful calls
C9_Witness ==
    /\ script = Exporter
    /\ pc = "done"
    /\ Len(calls) = 3
    /\ calls[3].ok

\* C10: template.json is touched only after describe-template, asked for
\* VersionNumber 1, has succeeded: without a successful describe-template the file
\* is what it was when the run started, and a run that ends well leaves exactly
\* the serialized response['Template'] in it, whatever it held before.
C10_FileOnlyAfterDescribe ==
    script = Saver =>
        /\ \A i \in DOMAIN calls :
              calls[i].op = "describe_template" /\ calls[i].version = 1
        /\ (calls = <<>> \/ ~LastCall.ok) => file = filePrior
        /\ pc = "write_file" => file = filePrior
        /\ (pc = "done" /\ calls # <<>> /\ LastCall.ok) =>
              file = JsonDumps(template_obj.Template)

\* C10 witness: a run that replaced an existing file
C10_Witness ==
    /\ script = Saver
    /\ pc = "done"
    /\ filePrior = <<"old content">>
    /\ file # filePrior
    /\ calls # <<>> /\ LastCall.ok

\* C11: in the cross-account script, whether TARGET_REGION and AWS_REGION are
\* set or not, the region written into the dataset ARNs, the namespace principal
\* and the printed dashboard URL of a create-dashboard request is the region the
\* client that issues the request is bound to.
C11_RegionsAgree ==
    script = Cross =>
        /\ \A i \in DOMAIN calls : IsCreateDashboard(calls[i]) =>
              LET c == calls[i]
              IN  /\ \A k \in DOMAIN c.refs : c.refs[k].DataSetArn[2] = c.client.region
                  /\ c.principal[2] = c.client.region
        /\ (\E i \in DOMAIN calls : IsCreateDashboard(calls[i]) /\ calls[i].ok)
              => result.url[2] = target_client.region

====
